---- MODULE Spec2Model ----
(***************************************************************************)
(* SpacesClient (src/src/index.js): a client of an S3-compatible object    *)
(* store and of the CDN management API.  The object store, the CDN API,    *)
(* the retry library and the file system are the environment: each request *)
(* in flight is answered by a separate step that either succeeds or fails. *)
(*                                                                         *)
(* Strings that the code takes apart (an endpoint's origin, a key's        *)
(* prefix) are sequences of tokens, "." being a token of its own.          *)
(***************************************************************************)
EXTENDS Integers, Sequences, FiniteSets, TLC

Null == "null"

(* ---------------------------------------------------------------- bounds *)
\* chunks the object read by downloadFile arrives in, at most
MaxChunks == 2
\* LastModified takes the values 1..MaxTime (epoch milliseconds)
MaxTime == 2
\* keys one page of a listing holds (the object store's page is 1000)
PageSize == 3
\* attempts the retry policy makes before it gives up (the library's default is 10)
NumOfAttempts == 3
\* calls made on the client, by all callers together
MaxCalls == 3

(* ----------------------------------------------------- client and its CDN *)
Callers == {"c1", "c2"}
Buckets == {<<"b1">>}
Tokens == {Null, "tok"}
\* the destination key each caller uploads to
KeyOf == [p \in Callers |-> IF p = "c1" THEN "k1" ELSE "k2"]

\* what GET /v2/cdn/endpoints answers: endpoints with an id and an origin host
EndpointLists ==
    { <<>>,
      << [id |-> "e2", origin |-> <<"b2", ".", "nyc3", ".", "com">>],
         [id |-> "e1", origin |-> <<"b1", ".", "nyc3", ".", "com">>] >>,
      << [id |-> "e1", origin |-> <<"b1", ".", "nyc3", ".", "com">>],
         [id |-> "e3", origin |-> <<"b1", ".", "ams3", ".", "com">>] >> }

VARIABLES
    bucket,                 \* this.bucket
    digitalOceanAPIToken,   \* this.digitalOceanAPIToken
    customCdnHost,          \* this.customCdnHost
    cdnEndpointId,          \* this.cdnEndpointId, the memoized identifier
    ctorCdnEndpointId,      \* the cdnEndpointId the constructor was given
    cdnEndpoints,           \* the CDN API's endpoints
    stored,                 \* keys written to the bucket by put-object
    pc,                     \* each caller's position
    cur,                    \* each caller's call in progress
    nCalls,                 \* calls started on the client
    returnedIds,            \* identifiers getCDNEndpointId has returned so far
    objects,                \* the bucket: each key's LastModified, or Absent
    acl,                    \* the bucket: each key's grants
    spc,                    \* position of the listing, delete or copy call
    call,                   \* that call's record
    dpc,                    \* position of the downloadFile call
    parentExists,           \* the directory of filePathToSave exists
    fileExists,             \* filePathToSave exists
    fileBytes,              \* chunks the write stream has written to its file
    ws,                     \* fileWriteStream: opening, open, finished, errored
    wsEnding,               \* end() was called on fileWriteStream
    wsOpened,               \* fileWriteStream has opened its file
    piped,                  \* chunks piped into fileWriteStream
    req,                    \* the getObject request: sent, streaming, ended, errored
    promise,                \* the promise downloadFile returns
    promiseValue,           \* what it settled with
    readFailedAfterOpen,    \* the request failed once the file was open
    handlerThrew,           \* unlinkSync threw inside the request's error handler
    unhandledError          \* fileWriteStream emitted 'error': nothing listens

cfgVars == <<bucket, digitalOceanAPIToken, customCdnHost, ctorCdnEndpointId, cdnEndpoints>>
upVars == <<cdnEndpointId, stored, pc, cur, nCalls, returnedIds>>
\* what getCDNEndpointId and uploadFile leave alone
dlVars == <<dpc, parentExists, fileExists, fileBytes, ws, wsEnding, wsOpened, piped, req,
            promise, promiseValue, readFailedAfterOpen, handlerThrew, unhandledError>>
notUp == <<cfgVars, objects, acl, spc, call, dlVars>>
stVars == <<objects, acl, spc, call>>
\* what the listing, delete and copy calls leave alone
notSt == <<cfgVars, upVars, dlVars>>
\* what downloadFile leaves alone
notDl == <<cfgVars, upVars, stVars>>

\* JavaScript truthiness of an identifier or token
Truthy(v) == v /= Null /\ v /= ""

\* origin.split('.')[0]
RECURSIVE FirstLabel(_)
FirstLabel(s) ==
    IF s = <<>> \/ Head(s) = "." THEN <<>>
    ELSE <<Head(s)>> \o FirstLabel(Tail(s))

\* find's undefined
NoEndpoint == [id |-> Null, origin |-> <<>>]

\* cdnEndpoints.find(({ origin }) => this.bucket === origin.split('.')[0])
RECURSIVE FindEndpoint(_, _)
FindEndpoint(eps, b) ==
    IF eps = <<>> THEN NoEndpoint
    ELSE IF FirstLabel(Head(eps).origin) = b THEN Head(eps)
    ELSE FindEndpoint(Tail(eps), b)

\* `https://${this.bucket}.${this.endpoint}/${path}`
getURL(path) ==
    [scheme |-> "https", host |-> bucket \o <<".", "endpoint">>, path |-> path]

\* the URL with its host replaced
getCDNURL(path) ==
    [getURL(path) EXCEPT !.host =
        IF Truthy(customCdnHost) THEN customCdnHost ELSE <<"cdn", ".", "digitaloceanspaces">>]

NoURL == [scheme |-> Null, host |-> <<>>, path |-> Null]

\* a call's record: what it was asked, what it has requested so far, how it ended
Blank ==
    [op |-> "none", backoff |-> FALSE, purge |-> FALSE, key |-> Null,
     attempt |-> 0, putCalls |-> 0, listCalls |-> 0, purgeCalls |-> 0,
     deleteCalls |-> 0, cacheWrites |-> 0, nFailed |-> 0, lastErr |-> Null,
     outcome |-> "pending", value |-> Null, url |-> NoURL, putOk |-> FALSE,
     purgeId |-> Null, purgeFiles |-> <<>>, afterSuccess |-> FALSE]

CustomHosts == {Null, <<"cdn", ".", "example">>}

InitCfg ==
    /\ bucket \in Buckets
    /\ digitalOceanAPIToken \in Tokens
    /\ customCdnHost = Null
    /\ ctorCdnEndpointId \in {Null, "e9"}
    /\ cdnEndpoints \in EndpointLists

\* the bucket's keys, in the order the object store lists them
KeyUniverse == << <<"a">>, <<"a", "/", "1">>, <<"a", "/", "2">>, <<"b", "/", "1">> >>
KeySet == {KeyUniverse[i] : i \in 1..Len(KeyUniverse)}
Prefixes == {<<>>, <<"a">>, <<"a", "/">>, <<"b">>, <<"c">>}
Absent == 0
Times == 1..MaxTime
\* grants: the grantee's URI (none for the owner) and the permission
AllUsersURI == <<"http://acs.amazonaws.com/groups/global/", "AllUsers">>
AuthenticatedUsersURI == <<"http://acs.amazonaws.com/groups/global/", "AuthenticatedUsers">>
NoURI == <<>>
PrivateGrants == {[uri |-> NoURI, permission |-> "FULL_CONTROL"]}
PublicReadGrants == PrivateGrants \cup {[uri |-> AllUsersURI, permission |-> "READ"]}
GrantSets ==
    { PrivateGrants,
      PublicReadGrants,
      PrivateGrants \cup {[uri |-> AllUsersURI, permission |-> "WRITE"]},
      PrivateGrants \cup {[uri |-> AuthenticatedUsersURI, permission |-> "READ"]} }

NoCall ==
    [op |-> "none", path |-> <<>>, sortByDate |-> Null, pathOnly |-> FALSE,
     listCalls |-> 0, listed |-> <<>>, deleteCalls |-> 0, deleteObjects |-> <<>>,
     source |-> <<>>, dest |-> <<>>, aclCalls |-> 0, grantsRead |-> {},
     copyCalls |-> 0, copyACL |-> Null,
     result |-> <<>>, outcome |-> "pending", err |-> Null]

\* the part of the state the calls on the bucket do not use
IdleUpload ==
    /\ cdnEndpointId = ctorCdnEndpointId
    /\ stored = {}
    /\ pc = [p \in Callers |-> "idle"]
    /\ cur = [p \in Callers |-> Blank]
    /\ nCalls = 0
    /\ returnedIds = {}

IdleStore ==
    /\ objects = [k \in KeySet |-> Absent]
    /\ acl = [k \in KeySet |-> PrivateGrants]
    /\ spc = "idle"
    /\ call = NoCall

IdleDownload ==
    /\ dpc = "idle"
    /\ parentExists = TRUE
    /\ fileExists = FALSE
    /\ fileBytes = 0
    /\ ws = "none"
    /\ wsEnding = FALSE
    /\ wsOpened = FALSE
    /\ piped = 0
    /\ req = "none"
    /\ promise = "none"
    /\ promiseValue = Null
    /\ readFailedAfterOpen = FALSE
    /\ handlerThrew = FALSE
    /\ unhandledError = FALSE

InitUpload ==
    /\ InitCfg
    /\ IdleStore
    /\ IdleDownload
    /\ cdnEndpointId = ctorCdnEndpointId
    /\ stored = {}
    /\ pc = [p \in Callers |-> "idle"]
    /\ cur = [p \in Callers |-> Blank]
    /\ nCalls = 0
    /\ returnedIds = {}

(* ------------------------------------------- getCDNEndpointId, uploadFile *)
\* a step's result: the caller's next position and its call's record
Step(where, r) == [pc |-> where, rec |-> r]

Settle(r, outcome, v) == Step("settled", [r EXCEPT !.outcome = outcome, !.value = v])

\* return this.getCDNURL(destinationPath)
Uploaded(r) == Step("settled", [r EXCEPT !.outcome = "resolved", !.url = getCDNURL(r.key)])

\* a retry that covers put-object alone: a failure of the purge step ends the call
FailStep_RetryPutOnly(r, e) ==
    LET r1 == [r EXCEPT !.nFailed = @ + 1, !.lastErr = e]
    IN  IF r.op = "upload" /\ r.backoff /\ r.attempt < NumOfAttempts /\ e = "PutErr"
        THEN Step("delay", r1)
        ELSE Settle(r1, "rejected", e)

\* a purge step whose failure is swallowed once the object is written
FailStep_SwallowPurge(r, e) ==
    LET r1 == [r EXCEPT !.nFailed = @ + 1, !.lastErr = e]
    IN  IF r.op = "upload" /\ r.putOk
        THEN Step("settled", [r1 EXCEPT !.outcome = "resolved", !.url = getCDNURL(r.key)])
        ELSE IF r.op = "upload" /\ r.backoff /\ r.attempt < NumOfAttempts
        THEN Step("delay", r1)
        ELSE Settle(r1, "rejected", e)

\* the call, or the attempt, throws e.  backOff(() => makeUpload()) starts a new
\* attempt while attempts are left and rethrows the last error otherwise; without
\* it the error is the call's.
FailStep(r, e) ==
    LET r1 == [r EXCEPT !.nFailed = @ + 1, !.lastErr = e]
    IN  IF r.op = "upload" /\ r.backoff /\ r.attempt < NumOfAttempts
        THEN Step("delay", r1)
        ELSE Settle(r1, "rejected", e)

\* getCDNEndpointId has an identifier to return: to its caller, or into the
\* DELETE .../cdn/endpoints/{id}/cache request of makeUpload
GotIdStep(r, id) ==
    IF r.op = "get"
    THEN Settle(r, "resolved", id)
    ELSE Step("purge", [r EXCEPT !.purgeCalls = @ + 1, !.purgeId = id,
                                 !.purgeFiles = <<r.key>>])

\* getCDNEndpointId without its cache: every call lists the endpoints
EnterStep_NoCache(r) ==
    IF ~Truthy(digitalOceanAPIToken) THEN FailStep(r, "NoToken")
    ELSE Step("list", [r EXCEPT !.listCalls = @ + 1])

\* getCDNEndpointId up to its first await
EnterStep(r) ==
    IF ~Truthy(digitalOceanAPIToken) THEN FailStep(r, "NoToken")
    ELSE IF Truthy(cdnEndpointId) THEN GotIdStep(r, cdnEndpointId)
    ELSE Step("list", [r EXCEPT !.listCalls = @ + 1])

\* getCDNEndpointId after the listing answered
ListedStep(r, eps) ==
    LET found == FindEndpoint(eps, bucket)
    IN  IF found = NoEndpoint THEN FailStep(r, "NotFound")
        ELSE GotIdStep([r EXCEPT !.cacheWrites = @ + 1], found.id)

\* a cache filled from the last endpoint listed instead of the one found
ListedCache_LastListed(eps) ==
    IF FindEndpoint(eps, bucket) = NoEndpoint THEN cdnEndpointId ELSE eps[Len(eps)].id

\* what the answered listing leaves in this.cdnEndpointId
ListedCache(eps) ==
    LET found == FindEndpoint(eps, bucket)
    IN  IF found = NoEndpoint THEN cdnEndpointId ELSE found.id

\* a makeUpload that purges whatever purgeCache says
UploadedStep_AlwaysPurge(r) == EnterStep(r)

\* makeUpload after put-object succeeded
UploadedStep(r) ==
    IF r.purge THEN EnterStep(r) ELSE Uploaded(r)

Take(p, step) ==
    /\ pc' = [pc EXCEPT ![p] = step.pc]
    /\ cur' = [cur EXCEPT ![p] = step.rec]
    /\ returnedIds' =
          IF step.rec.purgeCalls > cur[p].purgeCalls THEN returnedIds \cup {step.rec.purgeId}
          ELSE IF step.rec.op = "get" /\ step.rec.outcome = "resolved"
               THEN returnedIds \cup {step.rec.value}
          ELSE returnedIds

StartGet(p) ==
    /\ pc[p] = "idle" /\ nCalls < MaxCalls
    /\ Take(p, EnterStep([Blank EXCEPT !.op = "get", !.afterSuccess = (returnedIds /= {})]))
    /\ nCalls' = nCalls + 1
    /\ UNCHANGED <<notUp, cdnEndpointId, stored>>

StartUpload(p) ==
    /\ pc[p] = "idle" /\ nCalls < MaxCalls
    /\ \E b \in BOOLEAN, g \in BOOLEAN :
          Take(p, Step("put", [Blank EXCEPT !.op = "upload", !.key = KeyOf[p], !.backoff = b,
                                            !.purge = g, !.attempt = 1, !.putCalls = 1,
                                            !.afterSuccess = (returnedIds /= {})]))
    /\ nCalls' = nCalls + 1
    /\ UNCHANGED <<notUp, cdnEndpointId, stored>>

PutOk(p) ==
    /\ pc[p] = "put"
    /\ Take(p, UploadedStep([cur[p] EXCEPT !.putOk = TRUE]))
    /\ stored' = stored \cup {cur[p].key}
    /\ UNCHANGED <<notUp, cdnEndpointId, nCalls>>

PutFail(p) ==
    /\ pc[p] = "put"
    /\ Take(p, FailStep(cur[p], "PutErr"))
    /\ UNCHANGED <<notUp, cdnEndpointId, stored, nCalls>>

ListOk(p) ==
    /\ pc[p] = "list"
    /\ Take(p, ListedStep(cur[p], cdnEndpoints))
    /\ cdnEndpointId' = ListedCache(cdnEndpoints)
    /\ UNCHANGED <<notUp, stored, nCalls>>

ListFail(p) ==
    /\ pc[p] = "list"
    /\ Take(p, FailStep(cur[p], "ListErr"))
    /\ UNCHANGED <<notUp, cdnEndpointId, stored, nCalls>>

PurgeOk(p) ==
    /\ pc[p] = "purge"
    /\ Take(p, Uploaded(cur[p]))
    /\ UNCHANGED <<notUp, cdnEndpointId, stored, nCalls>>

PurgeFail(p) ==
    /\ pc[p] = "purge"
    /\ Take(p, FailStep(cur[p], "PurgeErr"))
    /\ UNCHANGED <<notUp, cdnEndpointId, stored, nCalls>>

\* the retry policy's delay is over: the next attempt calls makeUpload again
Retry(p) ==
    /\ pc[p] = "delay"
    /\ Take(p, Step("put", [cur[p] EXCEPT !.attempt = @ + 1, !.putCalls = @ + 1,
                                          !.putOk = FALSE]))
    /\ UNCHANGED <<notUp, cdnEndpointId, stored, nCalls>>

\* the caller has its answer and goes on
Return(p) ==
    /\ pc[p] = "settled"
    /\ pc' = [pc EXCEPT ![p] = "idle"]
    /\ cur' = [cur EXCEPT ![p] = Blank]
    /\ UNCHANGED <<notUp, cdnEndpointId, stored, nCalls, returnedIds>>

NextUpload ==
    \E p \in Callers :
        \/ StartGet(p) \/ StartUpload(p) \/ PutOk(p) \/ PutFail(p)
        \/ ListOk(p) \/ ListFail(p) \/ PurgeOk(p) \/ PurgeFail(p)
        \/ Retry(p) \/ Return(p)

vars == <<cfgVars, upVars, stVars, dlVars>>

SpecUpload == InitUpload /\ [][NextUpload]_vars

(* ------------------------------------------- listPathObjects, listPathFiles *)
HasPrefix(k, pre) == Len(pre) <= Len(k) /\ SubSeq(k, 1, Len(pre)) = pre

FirstN(q, n) == IF Len(q) <= n THEN q ELSE SubSeq(q, 1, n)

\* listObjectsV2({ Bucket, Prefix }) answers data.Contents: the first page of the
\* objects under the prefix, in key order
RECURSIVE Contents(_, _)
Contents(keys, pre) ==
    IF keys = <<>> THEN <<>>
    ELSE LET k == Head(keys)
         IN  (IF objects[k] /= Absent /\ HasPrefix(k, pre)
              THEN <<[Key |-> k, LastModified |-> objects[k]]>> ELSE <<>>)
             \o Contents(Tail(keys), pre)

listPathObjects(path) == FirstN(Contents(KeyUniverse, path), PageSize)

SortOrderASC == "ASC"
SortOrderDESC == "DESC"
Undefined == "undefined"
SortArgs == {Undefined, SortOrderASC, SortOrderDESC, "desc"}

\* a comparator that ignores sortByDate
CompareDates_AlwaysAscending(a, b, sortByDate) == a.lastModified - b.lastModified

\* the comparator handed to filesList.sort
CompareDates(a, b, sortByDate) ==
    IF sortByDate = SortOrderDESC
    THEN b.lastModified - a.lastModified
    ELSE a.lastModified - b.lastModified

\* Array.prototype.sort is stable: x goes after every element not greater than it
RECURSIVE SortInsert(_, _, _)
SortInsert(sorted, x, sortByDate) ==
    IF sorted = <<>> THEN <<x>>
    ELSE IF CompareDates(Head(sorted), x, sortByDate) <= 0
         THEN <<Head(sorted)>> \o SortInsert(Tail(sorted), x, sortByDate)
         ELSE <<x>> \o sorted

RECURSIVE SortFrom(_, _, _)
SortFrom(sorted, rest, sortByDate) ==
    IF rest = <<>> THEN sorted
    ELSE SortFrom(SortInsert(sorted, Head(rest), sortByDate), Tail(rest), sortByDate)

\* sortFilesByDate(filesList, sortByDate = SortOrder.ASC)
sortFilesByDate(filesList, sortByDate) ==
    SortFrom(<<>>, filesList, IF sortByDate = Undefined THEN SortOrderASC ELSE sortByDate)

\* objects.map(({ Key, LastModified }) => ({ url: ..., lastModified: LastModified }))
FilesList(objs, pathOnly) ==
    [i \in 1..Len(objs) |->
        [url |-> IF pathOnly THEN objs[i].Key ELSE getCDNURL(objs[i].Key),
         lastModified |-> objs[i].LastModified]]

\* a client without CDN credentials: the calls on the bucket use none
InitPlainCfg ==
    /\ bucket \in Buckets
    /\ digitalOceanAPIToken = Null
    /\ customCdnHost \in CustomHosts
    /\ ctorCdnEndpointId = Null
    /\ cdnEndpoints = <<>>

InitList ==
    /\ InitPlainCfg
    /\ IdleUpload
    /\ IdleDownload
    /\ objects \in [KeySet -> Times \cup {Absent}]
    /\ acl = [k \in KeySet |-> PrivateGrants]
    /\ spc = "idle"
    /\ call = NoCall

StartListPathFiles ==
    /\ spc = "idle"
    /\ \E path \in Prefixes, sortByDate \in SortArgs, pathOnly \in BOOLEAN :
          call' = [NoCall EXCEPT !.op = "listPathFiles", !.path = path,
                                 !.sortByDate = sortByDate, !.pathOnly = pathOnly,
                                 !.listCalls = 1]
    /\ spc' = "listing"
    /\ UNCHANGED <<notSt, objects, acl>>

ListPathFilesListed ==
    /\ spc = "listing" /\ call.op = "listPathFiles"
    /\ LET objs == listPathObjects(call.path)
       IN  call' = [call EXCEPT !.listed = objs,
                                !.result = sortFilesByDate(FilesList(objs, call.pathOnly),
                                                           call.sortByDate),
                                !.outcome = "resolved"]
    /\ spc' = "settled"
    /\ UNCHANGED <<notSt, objects, acl>>

\* the object store fails the listing
ListingFails ==
    /\ spc = "listing"
    /\ call' = [call EXCEPT !.outcome = "rejected", !.err = "ListObjectsErr"]
    /\ spc' = "settled"
    /\ UNCHANGED <<notSt, objects, acl>>

StoreReturn ==
    /\ spc = "settled"
    /\ spc' = "idle"
    /\ call' = NoCall
    /\ UNCHANGED <<notSt, objects, acl>>

NextList ==
    \/ StartListPathFiles \/ ListPathFilesListed \/ ListingFails \/ StoreReturn

SpecList == InitList /\ [][NextList]_vars

(* ------------------------------------------------ deleteObjects, deleteFolder *)
\* a request that leaves the first listed object out
DeleteRequest_DropsFirst(objs) ==
    [i \in 1..(Len(objs) - (IF objs = <<>> THEN 0 ELSE 1)) |-> [Key |-> objs[i + 1].Key]]

\* Delete: { Objects: objects.map(object => ({ Key: object.Key })) }
DeleteRequest(objs) == [i \in 1..Len(objs) |-> [Key |-> objs[i].Key]]

RequestKeys(request) == {request[i].Key : i \in 1..Len(request)}

InitDelete ==
    /\ InitPlainCfg
    /\ IdleUpload
    /\ IdleDownload
    /\ objects \in [KeySet -> {Absent, 1}]
    /\ acl = [k \in KeySet |-> PrivateGrants]
    /\ spc = "idle"
    /\ call = NoCall

StartDeleteFolder ==
    /\ spc = "idle"
    /\ \E folderPath \in Prefixes :
          call' = [NoCall EXCEPT !.op = "deleteFolder", !.path = folderPath, !.listCalls = 1]
    /\ spc' = "listing"
    /\ UNCHANGED <<notSt, objects, acl>>

\* the listing answered: deleteFolder hands it to deleteObjects
DeleteFolderListed ==
    /\ spc = "listing" /\ call.op = "deleteFolder"
    /\ LET objs == listPathObjects(call.path)
       IN  call' = [call EXCEPT !.listed = objs, !.deleteCalls = @ + 1,
                                !.deleteObjects = DeleteRequest(objs)]
    /\ spc' = "deleting"
    /\ UNCHANGED <<notSt, objects, acl>>

\* the object store carried the batch delete out
DeleteSucceeds ==
    /\ spc = "deleting"
    /\ objects' = [k \in KeySet |->
                     IF k \in RequestKeys(call.deleteObjects) THEN Absent ELSE objects[k]]
    /\ call' = [call EXCEPT !.outcome = "resolved"]
    /\ spc' = "settled"
    /\ UNCHANGED <<notSt, acl>>

\* the object store refused the batch delete
DeleteFails ==
    /\ spc = "deleting"
    /\ call' = [call EXCEPT !.outcome = "rejected", !.err = "DeleteObjectsErr"]
    /\ spc' = "settled"
    /\ UNCHANGED <<notSt, objects, acl>>

\* another client writes an object while the call is in flight
OtherClientPuts ==
    /\ spc \in {"listing", "deleting"}
    /\ \E k \in KeySet : objects[k] = Absent /\ objects' = [objects EXCEPT ![k] = 1]
    /\ UNCHANGED <<notSt, acl, spc, call>>

NextDelete ==
    \/ StartDeleteFolder \/ DeleteFolderListed \/ ListingFails
    \/ DeleteSucceeds \/ DeleteFails \/ OtherClientPuts \/ StoreReturn

SpecDelete == InitDelete /\ [][NextDelete]_vars

(* --------------------------------------------------- isFilePublic, copyFile *)
\* Grantee.URI && Grantee.URI.match(/AllUsers/)
MatchesAllUsers(uri) == uri /= NoURI /\ \E i \in 1..Len(uri) : uri[i] = "AllUsers"

\* an ACL check that takes any grant to all users for a public one
isFilePublic_AnyGrant(grants) == \E g \in grants : MatchesAllUsers(g.uri)

\* acl.Grants.some(({ Grantee, Permission }) => isAllUsers && Permission === 'READ')
isFilePublic(grants) ==
    \E g \in grants : MatchesAllUsers(g.uri) /\ g.permission = "READ"

\* ACL: isSourcePublic ? 'public-read' : 'private'
CopyACL(isSourcePublic) == IF isSourcePublic THEN "public-read" ELSE "private"

\* the grants the object store gives an object copied with a canned ACL
CannedGrants(cannedACL) ==
    IF cannedACL = "public-read" THEN PublicReadGrants ELSE PrivateGrants

CopySources == {KeyUniverse[1], KeyUniverse[2]}
CopyDests == {KeyUniverse[3], KeyUniverse[4]}

InitCopy ==
    /\ InitPlainCfg
    /\ IdleUpload
    /\ IdleDownload
    /\ objects \in [KeySet -> {Absent, 1}]
    /\ \E g \in GrantSets : acl = [k \in KeySet |-> g]
    /\ spc = "idle"
    /\ call = NoCall

StartCopyFile ==
    /\ spc = "idle"
    /\ \E sourcePath \in CopySources, destinationPath \in CopyDests :
          call' = [NoCall EXCEPT !.op = "copyFile", !.source = sourcePath,
                                 !.dest = destinationPath, !.aclCalls = 1]
    /\ spc' = "aclCheck"
    /\ UNCHANGED <<notSt, objects, acl>>

\* getObjectAcl answered: copyFile sends copyObject with the ACL it decided on
AclAnswered ==
    /\ spc = "aclCheck"
    /\ objects[call.source] /= Absent
    /\ call' = [call EXCEPT !.grantsRead = acl[call.source], !.copyCalls = @ + 1,
                             !.copyACL = CopyACL(isFilePublic(acl[call.source]))]
    /\ spc' = "copying"
    /\ UNCHANGED <<notSt, objects, acl>>

\* getObjectAcl failed (no such key, no permission): isFilePublic throws
AclFails ==
    /\ spc = "aclCheck"
    /\ call' = [call EXCEPT !.outcome = "rejected", !.err = "GetObjectAclErr"]
    /\ spc' = "settled"
    /\ UNCHANGED <<notSt, objects, acl>>

\* another client changes the source's ACL while the call is in flight
OtherClientSetsAcl ==
    /\ spc \in {"aclCheck", "copying"}
    /\ \E g \in GrantSets \ {acl[call.source]} : acl' = [acl EXCEPT ![call.source] = g]
    /\ UNCHANGED <<notSt, objects, spc, call>>

CopySucceeds ==
    /\ spc = "copying"
    /\ objects[call.source] /= Absent
    /\ objects' = [objects EXCEPT ![call.dest] = objects[call.source]]
    /\ acl' = [acl EXCEPT ![call.dest] = CannedGrants(call.copyACL)]
    /\ call' = [call EXCEPT !.outcome = "resolved"]
    /\ spc' = "settled"
    /\ UNCHANGED notSt

CopyFails ==
    /\ spc = "copying"
    /\ call' = [call EXCEPT !.outcome = "rejected", !.err = "CopyObjectErr"]
    /\ spc' = "settled"
    /\ UNCHANGED <<notSt, objects, acl>>

NextCopy ==
    \/ StartCopyFile \/ AclAnswered \/ AclFails \/ OtherClientSetsAcl
    \/ CopySucceeds \/ CopyFails \/ StoreReturn

SpecCopy == InitCopy /\ [][NextCopy]_vars

(* --------------------------------------------------------------- downloadFile *)
\* a promise settles once: resolve and reject on a settled promise do nothing
SettlePromise(state, outcome) == IF state = "pending" THEN outcome ELSE state
SettleValue(state, old, v) == IF state = "pending" THEN v ELSE old

\* an error handler that leaves the partial file where it is
UnlinkSync_Skipped(exists) == [exists |-> exists, threw |-> FALSE]

\* fs.unlinkSync(filePathToSave): removes the file, throws when there is none
UnlinkSync(exists) == [exists |-> FALSE, threw |-> ~exists]

InitDownload ==
    /\ InitPlainCfg
    /\ IdleUpload
    /\ IdleStore
    /\ dpc = "idle"
    /\ parentExists \in BOOLEAN
    /\ fileExists \in {FALSE, parentExists}
    /\ fileBytes = 0
    /\ ws = "none"
    /\ wsEnding = FALSE
    /\ wsOpened = FALSE
    /\ piped = 0
    /\ req = "none"
    /\ promise = "none"
    /\ promiseValue = Null
    /\ readFailedAfterOpen = FALSE
    /\ handlerThrew = FALSE
    /\ unhandledError = FALSE

\* new Promise((resolve, reject) => { createWriteStream; getObject...pipe; on('finish') })
RunExecutor ==
    /\ promise' = "pending"
    /\ ws' = "opening"
    /\ req' = "sent"
    /\ dpc' = "piping"

StartDownload ==
    /\ dpc = "idle"
    /\ \E createDirIfNotExists \in BOOLEAN :
          IF createDirIfNotExists
          THEN dpc' = "mkdir" /\ UNCHANGED <<ws, req, promise>>
          ELSE RunExecutor
    /\ UNCHANGED <<notDl, parentExists, fileExists, fileBytes, wsEnding, wsOpened, piped,
                   promiseValue, readFailedAfterOpen, handlerThrew, unhandledError>>

\* await fs.promises.mkdir(parentPath, { recursive: true })
MkdirDone ==
    /\ dpc = "mkdir"
    /\ parentExists' = TRUE
    /\ RunExecutor
    /\ UNCHANGED <<notDl, fileExists, fileBytes, wsEnding, wsOpened, piped,
                   promiseValue, readFailedAfterOpen, handlerThrew, unhandledError>>

MkdirFails ==
    /\ dpc = "mkdir"
    /\ dpc' = "piping"
    /\ promise' = "rejected"
    /\ promiseValue' = "MkdirErr"
    /\ UNCHANGED <<notDl, parentExists, fileExists, fileBytes, ws, wsEnding, wsOpened, piped,
                   req, readFailedAfterOpen, handlerThrew, unhandledError>>

\* the write stream opened filePathToSave (flag 'w': created or truncated)
WriteStreamOpens ==
    /\ ws = "opening" /\ parentExists
    /\ ws' = "open"
    /\ wsOpened' = TRUE
    /\ fileExists' = TRUE
    /\ fileBytes' = 0
    /\ UNCHANGED <<notDl, dpc, parentExists, wsEnding, piped, req, promise, promiseValue,
                   readFailedAfterOpen, handlerThrew, unhandledError>>

\* the write stream emits 'error' (no such directory, no space left, ...): the code
\* listens to 'finish' alone
WriteStreamFails ==
    /\ \/ ws = "opening"
       \/ ws = "open" /\ fileBytes < piped
    /\ ws' = "errored"
    /\ unhandledError' = TRUE
    /\ UNCHANGED <<notDl, dpc, parentExists, fileExists, fileBytes, wsEnding, wsOpened, piped,
                   req, promise, promiseValue, readFailedAfterOpen, handlerThrew>>

\* a chunk of the object arrives and is piped into the write stream
RequestData ==
    /\ req \in {"sent", "streaming"} /\ piped < MaxChunks
    /\ req' = "streaming"
    /\ piped' = piped + 1
    /\ UNCHANGED <<notDl, dpc, parentExists, fileExists, fileBytes, ws, wsEnding, wsOpened,
                   promise, promiseValue, readFailedAfterOpen, handlerThrew, unhandledError>>

WriteStreamWrites ==
    /\ ws = "open" /\ fileBytes < piped
    /\ fileBytes' = fileBytes + 1
    /\ UNCHANGED <<notDl, dpc, parentExists, fileExists, ws, wsEnding, wsOpened, piped, req,
                   promise, promiseValue, readFailedAfterOpen, handlerThrew, unhandledError>>

\* the read stream ends: pipe calls end() on the write stream
RequestEnds ==
    /\ req \in {"sent", "streaming"}
    /\ req' = "ended"
    /\ wsEnding' = TRUE
    /\ UNCHANGED <<notDl, dpc, parentExists, fileExists, fileBytes, ws, wsOpened, piped,
                   promise, promiseValue, readFailedAfterOpen, handlerThrew, unhandledError>>

\* fileWriteStream.on('finish', () => resolve(filePathToSave))
WriteStreamFinishes ==
    /\ ws = "open" /\ wsEnding /\ fileBytes = piped
    /\ ws' = "finished"
    /\ promise' = SettlePromise(promise, "resolved")
    /\ promiseValue' = SettleValue(promise, promiseValue, "filePathToSave")
    /\ UNCHANGED <<notDl, dpc, parentExists, fileExists, fileBytes, wsEnding, wsOpened, piped,
                   req, readFailedAfterOpen, handlerThrew, unhandledError>>

\* .on('error', (error) => { fs.unlinkSync(filePathToSave); reject(error); })
RequestFails ==
    /\ req \in {"sent", "streaming"}
    /\ req' = "errored"
    /\ readFailedAfterOpen' = wsOpened
    /\ LET unlinked == UnlinkSync(fileExists)
       IN  /\ fileExists' = unlinked.exists
           /\ handlerThrew' = unlinked.threw
           /\ promise' = IF unlinked.threw THEN promise
                          ELSE SettlePromise(promise, "rejected")
           /\ promiseValue' = IF unlinked.threw THEN promiseValue
                               ELSE SettleValue(promise, promiseValue, "ReadErr")
    /\ UNCHANGED <<notDl, dpc, parentExists, fileBytes, ws, wsEnding, wsOpened, piped,
                   unhandledError>>

NextDownload ==
    \/ StartDownload \/ MkdirDone \/ MkdirFails
    \/ WriteStreamOpens \/ WriteStreamFails \/ WriteStreamWrites \/ WriteStreamFinishes
    \/ RequestData \/ RequestEnds \/ RequestFails

SpecDownload == InitDownload /\ [][NextDownload]_vars

(* -------------------------------------------------- claims on SpecList *)
Position(q, x) == CHOOSE i \in 1..Len(q) : q[i] = x

\* C8: listPathFiles returns the listed records in another order, non-decreasing
\* in lastModified unless sortByDate is 'DESC' and non-increasing when it is, any
\* other sortByDate value sorting as 'ASC' does; records with equal lastModified
\* keep the order in which the object store listed them.
C8_SortedStablePermutation ==
    (call.op = "listPathFiles" /\ call.outcome = "resolved") =>
    LET files == FilesList(call.listed, call.pathOnly)
        res == call.result
        n == Len(res)
    IN  /\ n = Len(files)
        /\ {res[i] : i \in 1..n} = {files[i] : i \in 1..n}
        /\ \A i, j \in 1..n : i < j =>
              /\ call.sortByDate = "DESC" => res[i].lastModified >= res[j].lastModified
              /\ call.sortByDate /= "DESC" => res[i].lastModified <= res[j].lastModified
              /\ res[i].lastModified = res[j].lastModified =>
                    Position(files, res[i]) < Position(files, res[j])

\* a descending listing of three records, two of them equal in lastModified, that
\* had to be reordered
C8_Witness ==
    /\ call.op = "listPathFiles" /\ call.outcome = "resolved"
    /\ call.sortByDate = "DESC" /\ Len(call.result) = 3
    /\ call.result /= FilesList(call.listed, call.pathOnly)
    /\ call.result[2].lastModified = call.result[3].lastModified

WasPublic(grants) ==
    \E g \in grants : g.uri = AllUsersURI /\ g.permission = "READ"

\* C6: copyFile sends copyObject only after the ACL check answered, with ACL
\* public-read exactly when the grants the check read made the source public and
\* private otherwise; a change of the source's ACL after the check changes neither
\* the ACL already decided nor the one the destination gets.
C6_CopyKeepsCheckedACL ==
    /\ [](call.op = "copyFile" =>
            /\ call.aclCalls = 1
            /\ call.copyCalls <= 1
            /\ spc = "aclCheck" => call.copyCalls = 0
            /\ call.err = "GetObjectAclErr" => call.copyCalls = 0 /\ call.outcome = "rejected"
            /\ call.copyCalls = 1 =>
                  /\ call.copyACL = "public-read" <=> WasPublic(call.grantsRead)
                  /\ call.copyACL = "private" <=> ~WasPublic(call.grantsRead)
            /\ call.outcome = "resolved" =>
                  /\ call.copyCalls = 1
                  /\ WasPublic(acl[call.dest]) <=> WasPublic(call.grantsRead))
    /\ [][(call.op = "copyFile" /\ call.copyCalls = 1 /\ call'.op = "copyFile") =>
            /\ call'.copyACL = call.copyACL
            /\ call'.grantsRead = call.grantsRead]_vars

\* a copy done public-read although the source has been made private since the check
C6_Witness ==
    /\ call.op = "copyFile" /\ spc = "settled" /\ call.outcome = "resolved"
    /\ call.copyACL = "public-read" /\ WasPublic(acl[call.dest])
    /\ ~WasPublic(acl[call.source])

(* ---------------------------------------------- claims on SpecDownload *)
\* C5: when the getObject request fails after the write stream opened its file
\* (bytes written or not), the file is gone, the call has rejected with the
\* request's error and did not resolve with the local path.
C5_ReadFailureCleansUp ==
    readFailedAfterOpen =>
        /\ ~fileExists
        /\ promise = "rejected"
        /\ promiseValue = "ReadErr"

\* the request failed after a chunk had been written to the file
C5_Witness ==
    /\ readFailedAfterOpen /\ fileBytes >= 1
    /\ ~fileExists /\ promise = "rejected" /\ promiseValue = "ReadErr"

DownloadQuiescent == dpc /= "idle" /\ ~ENABLED NextDownload

\* C10: every downloadFile call settles: once nothing more can happen to it, it has
\* resolved with the local path or rejected, and not both.
C10_EveryCallSettles ==
    DownloadQuiescent =>
        \/ promise = "resolved" /\ promiseValue = "filePathToSave"
        \/ promise = "rejected" /\ promiseValue \in {"ReadErr", "MkdirErr"}

(* ------------------------------------------------ claims on SpecUpload *)
IsUpload(p) == cur[p].op = "upload"
IsSettled(p) == pc[p] = "settled"
PurgeStepErrors == {"NoToken", "NotFound", "ListErr", "PurgeErr"}

\* C1: with exponentialBackoff the retried unit is the whole of makeUpload: every
\* attempt runs put-object once, a new attempt starts only after a failed one
\* (whatever failed: put-object, the endpoint resolution or the purge request), the
\* call rejects only once NumOfAttempts attempts have failed, and with the last
\* attempt's error; without exponentialBackoff there is one attempt and one
\* put-object.
C1_RetryWholeAction ==
    \A p \in Callers : IsUpload(p) =>
        LET r == cur[p]
        IN  /\ r.putCalls = r.attempt
            /\ r.attempt \in 1..NumOfAttempts
            /\ r.nFailed \in {r.attempt - 1, r.attempt}
            /\ r.purgeCalls <= r.attempt
            /\ ~r.backoff => r.attempt = 1 /\ r.putCalls = 1
            /\ pc[p] = "delay" => r.backoff /\ r.nFailed = r.attempt
                                            /\ r.attempt < NumOfAttempts
            /\ pc[p] \in {"put", "list", "purge"} => r.nFailed = r.attempt - 1
            /\ IsSettled(p) /\ r.outcome = "rejected" =>
                  /\ r.nFailed = (IF r.backoff THEN NumOfAttempts ELSE 1)
                  /\ r.nFailed = r.attempt
                  /\ r.value = r.lastErr
            /\ IsSettled(p) /\ r.outcome = "resolved" =>
                  /\ r.nFailed = r.attempt - 1
                  /\ r.putOk
                  /\ r.purge => r.purgeCalls >= 1

\* an upload that succeeded on its third attempt, the second having failed in the purge
C1_Witness ==
    \E p \in Callers :
        /\ IsUpload(p) /\ IsSettled(p) /\ cur[p].backoff /\ cur[p].purge
        /\ cur[p].outcome = "resolved" /\ cur[p].attempt = 3 /\ cur[p].putCalls = 3
        /\ cur[p].lastErr = "PurgeErr"

\* C2: uploadFile with purgeCache and no backoff, put-object having succeeded: a
\* failing purge step (no token, no matching endpoint, a failed listing or purge
\* request) rejects the call with that error, and the object stays written: no
\* delete is sent to the object store.
C2_PurgeFailureRejects ==
    \A p \in Callers :
        (IsUpload(p) /\ cur[p].purge /\ ~cur[p].backoff /\ IsSettled(p) /\ cur[p].putOk) =>
        LET r == cur[p]
        IN  /\ ~Truthy(digitalOceanAPIToken) =>
                  r.outcome = "rejected" /\ r.value = "NoToken"
            /\ ( /\ Truthy(digitalOceanAPIToken) /\ ~Truthy(ctorCdnEndpointId)
                 /\ FindEndpoint(cdnEndpoints, bucket) = NoEndpoint ) =>
                  r.outcome = "rejected" /\ r.value \in {"NotFound", "ListErr"}
            /\ r.outcome = "resolved" => r.purgeCalls = 1 /\ r.nFailed = 0
            /\ r.outcome = "rejected" =>
                  /\ r.value \in PurgeStepErrors
                  /\ r.value = "PurgeErr" <=> r.purgeCalls = 1
                  /\ r.key \in stored
                  /\ r.deleteCalls = 0

\* an upload rejected for the missing token after its object was written
C2_Witness ==
    \E p \in Callers :
        /\ IsUpload(p) /\ cur[p].purge /\ ~cur[p].backoff /\ IsSettled(p) /\ cur[p].putOk
        /\ digitalOceanAPIToken = Null
        /\ cur[p].outcome = "rejected" /\ cur[p].value = "NoToken"
        /\ cur[p].key \in stored

\* C3: with a token, a call that starts after getCDNEndpointId has returned an
\* identifier lists no endpoints, a call lists them at most once, the identifiers
\* returned are all the same one, and a client constructed with an identifier
\* never lists.
C3_Memoized ==
    /\ Cardinality(returnedIds) <= 1
    /\ \A p \in Callers :
          /\ cur[p].afterSuccess => cur[p].listCalls = 0
          /\ cur[p].op = "get" => cur[p].listCalls <= 1
          /\ Truthy(ctorCdnEndpointId) =>
                /\ cur[p].listCalls = 0
                /\ returnedIds \subseteq {ctorCdnEndpointId}
          /\ (cur[p].op = "get" /\ cur[p].outcome = "resolved") =>
                returnedIds = {cur[p].value}

\* a caller's second call returns the identifier a listing resolved, without listing
C3_Witness ==
    \E p \in Callers :
        /\ nCalls >= 2 /\ cur[p].op = "get" /\ IsSettled(p)
        /\ cur[p].outcome = "resolved" /\ cur[p].afterSuccess
        /\ cur[p].listCalls = 0 /\ cur[p].value = "e1"
        /\ ctorCdnEndpointId = Null

\* C4: an uploadFile without purgeCache sends no purge request and no endpoint
\* listing, and none of its steps changes this.cdnEndpointId, whatever the token,
\* the cached identifier or exponentialBackoff.
C4_NoPurgeNoCDN ==
    /\ [](\A p \in Callers : (IsUpload(p) /\ ~cur[p].purge) =>
            /\ cur[p].purgeCalls = 0
            /\ cur[p].listCalls = 0
            /\ cur[p].cacheWrites = 0)
    /\ [][\A p \in Callers :
            ( /\ pc'[p] /= pc[p]
              /\ \/ IsUpload(p) /\ ~cur[p].purge
                 \/ cur'[p].op = "upload" /\ ~cur'[p].purge )
            => cdnEndpointId' = cdnEndpointId]_vars

\* an upload without purgeCache done after a retry, a token set and nothing cached
C4_Witness ==
    \E p \in Callers :
        /\ IsUpload(p) /\ ~cur[p].purge /\ cur[p].backoff /\ IsSettled(p)
        /\ cur[p].outcome = "resolved" /\ cur[p].attempt = 2
        /\ Truthy(digitalOceanAPIToken) /\ cdnEndpointId = Null

====
